---------------------------- MODULE Spec2Model ----------------------------
(***************************************************************************)
(* The Evaluator of flurs (src/flurs/evaluator.py): the fit ->             *)
(* batch_update -> batch_evaluate -> evaluate protocol that drives a       *)
(* recommender with positive-only feedback events.                         *)
(*                                                                         *)
(* An event is the pair of its user index and its item index.  The other   *)
(* fields of an event (value, context, the feature vectors) are payloads   *)
(* the Evaluator hands to the recommender untouched; they decide no        *)
(* branch of the Evaluator and are left out.                               *)
(*                                                                         *)
(* The base recommender (init_model, is_new_user, add_user, is_new_item,   *)
(* add_item, users, n_item, scores2recos) is not part of src/; it is       *)
(* modelled from the capability contract of the specification, section     *)
(* 4.1 and section 3.  Indices are dense: an event that brings a new user  *)
(* (item) carries the next free index (section 3), which is what makes     *)
(* range(n_item) the set of registered items.                              *)
(***************************************************************************)
EXTENDS Integers, Sequences, FiniteSets, TLC

\* ------------------------------------------------------------------ bounds
MaxUser == 2
MaxItem == 2
MaxTrain == 1
MaxTest == 2
MaxStream == 2
MaxEpoch == 2
MaxCalls == 2
MaxScore == 1

VARIABLES
    \* ---- the recommender (self.rec)
    rec_kind,        \* "random" (baseline/random.py) or "popular" (deterministic)
    users,           \* rec.users: registered user index -> [observed: set of items]
    items,           \* rec.items: the registered item indices
    n_user,          \* rec.n_user
    n_item,          \* rec.n_item
    freq,            \* learnable parameters of the deterministic recommender
    \* ---- the evaluator
    is_feature_rec,  \* self.is_feature_rec
    has_can_repeat,  \* whether the attribute self.can_repeat exists
    can_repeat,      \* self.can_repeat (meaningful when has_can_repeat)
    \* ---- control
    pc,              \* position of the running call
    fault,           \* the exception that ended the run ("" when none)
    n_calls,         \* fit / evaluate calls made so far
    \* ---- locals of fit / batch_update / batch_evaluate
    train_events,
    test_events,
    n_epoch,
    epoch,
    i,               \* loop index of the running loop (1-based)
    all_items,       \* batch_evaluate's local set
    percentiles,     \* batch_evaluate's array, each entry <<pos * 100, len(recos) - 1>>
    MPR,             \* batch_update's MPR, the value it logged last
    \* ---- locals of the evaluate generator
    eval_events,
    gen_i,           \* index of the event the generator works on (1-based)
    target,          \* target_i_indices of the last recommend call
    recos,
    scores,
    rank,
    \* ---- history
    calls,           \* the calls on the recommender, and the observed.add's, of
                     \* the running (or last) fit / evaluate call or constructor
    results,         \* what the running (or last) evaluate generator yielded
    \* ---- the record of a repeated run (used by SpecRepeat only)
    run,             \* 0: runs are not recorded; 1: the first run; 2: its repetition
    hist,            \* the fit / evaluate calls of the run so far, with their
                     \* inputs and, once ended, their calls and results
    prev             \* hist of the first run, during its repetition

vars == <<rec_kind, users, items, n_user, n_item, freq, is_feature_rec,
          has_can_repeat, can_repeat, pc, fault, n_calls, train_events,
          test_events, n_epoch, epoch, i, all_items, percentiles, MPR,
          eval_events, gen_i, target, recos, scores, rank, calls, results,
          run, hist, prev>>

recVars == <<users, items, n_user, n_item, freq>>
fitLocals == <<train_events, test_events, n_epoch, epoch, all_items, percentiles, MPR>>
genLocals == <<eval_events, gen_i, target, recos, scores, rank>>
configVars == <<rec_kind, is_feature_rec, has_can_repeat, can_repeat>>
histVars == <<run, hist, prev>>

\* ------------------------------------------------------------------ inputs
Event(u, it) == [user |-> u, item |-> it]

Max(a, b) == IF a >= b THEN a ELSE b

\* Indices are assigned on first sighting, densely: the list es, read in order
\* on a model that knows the users 0..nu-1 and the items 0..ni-1, never brings
\* an index beyond the next free one.
RECURSIVE DenseFrom(_, _, _)
DenseFrom(nu, ni, es) ==
    IF es = <<>> THEN TRUE
    ELSE /\ Head(es).user <= nu
         /\ Head(es).item <= ni
         /\ DenseFrom(Max(nu, Head(es).user + 1), Max(ni, Head(es).item + 1), Tail(es))

Min(a, b) == IF a <= b THEN a ELSE b

\* the number of known users / items after the list es has been read
RECURSIVE UsersAfter(_, _)
UsersAfter(nu, es) ==
    IF es = <<>> THEN nu ELSE UsersAfter(Max(nu, Head(es).user + 1), Tail(es))

RECURSIVE ItemsAfter(_, _)
ItemsAfter(ni, es) ==
    IF es = <<>> THEN ni ELSE ItemsAfter(Max(ni, Head(es).item + 1), Tail(es))

\* the dense lists of at most n events over the bounded index space
RECURSIVE DenseLists(_, _, _)
DenseLists(nu, ni, n) ==
    IF n = 0 THEN {<<>>}
    ELSE {<<>>} \cup
         UNION {{<<Event(u, it)>> \o t :
                    t \in DenseLists(Max(nu, u + 1), Max(ni, it + 1), n - 1)} :
                u \in 0..Min(nu, MaxUser - 1), it \in 0..Min(ni, MaxItem - 1)}

\* list(a set of small non-negative integers): increasing order
SortedSeq(S) ==
    [k \in 1..Cardinality(S) |-> CHOOSE x \in S : Cardinality({y \in S : y < x}) = k - 1]

Range(s) == {s[k] : k \in DOMAIN s}

Perms(s) ==
    {t \in [DOMAIN s -> Range(s)] :
        \E f \in [DOMAIN s -> DOMAIN s] :
            /\ \A a, b \in DOMAIN s : a # b => f[a] # f[b]
            /\ \A a \in DOMAIN s : t[a] = s[f[a]]}

EmptyFcn == [x \in {} |-> 0]

\* ------------------------------------------------------------------ history
\* One entry per call the Evaluator makes on the recommender, and per
\* observed.add it performs: the operation, its user and item index, the
\* candidate set of a recommend, the is_batch_train flag of an update, the loop
\* that made it and the position k of the event in its list.
Call(op, u, it, cs, b, ph, k) ==
    [op |-> op, user |-> u, item |-> it, cands |-> cs, batch |-> b,
     phase |-> ph, k |-> k]

\* ------------------------------------------------- the recommender contract
is_new_user(u) == u \notin DOMAIN users

is_new_item(it) == it \notin items

\* self.users[u] = {'observed': set()}; self.n_user += 1
add_user(u) ==
    [users |-> [x \in (DOMAIN users) \cup {u} |->
                    IF x = u THEN [observed |-> {}] ELSE users[x]],
     n_user |-> n_user + 1]

\* self.items[i] = {}; self.n_item += 1; the parameters of item i start at 0
add_item(it) ==
    [items |-> items \cup {it},
     n_item |-> n_item + 1,
     freq |-> IF rec_kind = "popular"
              THEN [x \in (DOMAIN freq) \cup {it} |-> IF x = it THEN 0 ELSE freq[x]]
              ELSE freq]

\* Random.update_recommender: pass.  The deterministic recommender counts the
\* interactions of each item.
rec_update(it) ==
    IF rec_kind = "popular" /\ it \in DOMAIN freq
    THEN [freq EXCEPT ![it] = @ + 1]
    ELSE freq

\* Random.score: np.random.rand(len(candidates)), any vector of scores
random_score(user, candidates) == [DOMAIN candidates -> 0..MaxScore]

\* the deterministic recommender scores an item by its count
popular_score(user, candidates) ==
    {[p \in DOMAIN candidates |-> freq[candidates[p]]]}

\* the score vectors a call of score can return
score(user, candidates) ==
    IF rec_kind = "random"
    THEN random_score(user, candidates)
    ELSE popular_score(user, candidates)

\* candidates by descending score, ties broken by the position in candidates
scores2recos(sc, candidates) ==
    LET n == Len(candidates)
        ord(p) == 1 + Cardinality({q \in 1..n :
                        sc[q] > sc[p] \/ (sc[q] = sc[p] /\ q < p)})
        at(k) == CHOOSE p \in 1..n : ord(p) = k
    IN  [recos |-> [k \in 1..n |-> candidates[at(k)]],
         scores |-> [k \in 1..n |-> sc[at(k)]]]

\* Random.recommend: the outcomes a call can have
recommend(user, candidates) ==
    {scores2recos(sc, candidates) : sc \in score(user, candidates)}

\* ------------------------------------------------------ Evaluator helpers
\* a validation that registers the user without asking is_new_user
validate_user_unguarded(e, ph, k) ==
    [users |-> add_user(e.user).users, n_user |-> add_user(e.user).n_user,
     log |-> <<Call("add_user", e.user, -1, {}, FALSE, ph, k)>>]

\* __validate_user: the users dict, n_user and the calls made
validate_user(e, ph, k) ==
    IF ~is_new_user(e.user)
    THEN [users |-> users, n_user |-> n_user, log |-> <<>>]
    ELSE [users |-> add_user(e.user).users, n_user |-> add_user(e.user).n_user,
          log |-> <<Call("add_user", e.user, -1, {}, FALSE, ph, k)>>]

\* a validation whose registration of a new item drops the items known so far
validate_item_forgetting(e, ph, k) ==
    IF ~is_new_item(e.item)
    THEN [items |-> items, n_item |-> n_item, freq |-> freq, log |-> <<>>]
    ELSE [items |-> {e.item}, n_item |-> add_item(e.item).n_item,
          freq |-> add_item(e.item).freq,
          log |-> <<Call("add_item", -1, e.item, {}, FALSE, ph, k)>>]

\* __validate_item
validate_item(e, ph, k) ==
    IF ~is_new_item(e.item)
    THEN [items |-> items, n_item |-> n_item, freq |-> freq, log |-> <<>>]
    ELSE [items |-> add_item(e.item).items, n_item |-> add_item(e.item).n_item,
          freq |-> add_item(e.item).freq,
          log |-> <<Call("add_item", -1, e.item, {}, FALSE, ph, k)>>]

\* rec.users[e.user.index]['observed'].add(e.item.index), on the users dict us
observe(us, e) ==
    [us EXCEPT ![e.user].observed = @ \cup {e.item}]

\* __update: the calls it makes, in order
update_calls(e, is_batch_train, ph, k) ==
    IF is_feature_rec
    THEN <<Call("update_user_feature", e.user, -1, {}, FALSE, ph, k),
           Call("update_item_feature", -1, e.user, {}, FALSE, ph, k),
           Call("update", e.user, e.item, {}, is_batch_train, ph, k)>>
    ELSE <<Call("update", e.user, e.item, {}, is_batch_train, ph, k)>>

\* __recommend: the calls it makes, in order
recommend_calls(e, target_i_indices, ph, k) ==
    IF is_feature_rec
    THEN <<Call("update_user_feature", e.user, -1, {}, FALSE, ph, k),
           Call("update_item_feature", -1, e.item, {}, FALSE, ph, k),
           Call("recommend", e.user, e.item, Range(target_i_indices), FALSE, ph, k)>>
    ELSE <<Call("recommend", e.user, e.item, Range(target_i_indices), FALSE, ph, k)>>

\* np.where(recos == x)[0][0]; -1 stands for the IndexError of an absent x
PosOf(rs, x) ==
    IF x \in Range(rs)
    THEN (CHOOSE p \in DOMAIN rs : rs[p] = x /\ \A q \in DOMAIN rs : rs[q] = x => p <= q) - 1
    ELSE -1

\* an Evaluator whose can_repeat reads as False until it is set
can_repeat_defaults == TRUE

\* the read of self.can_repeat finds the attribute (an AttributeError if not)
can_repeat_is_set == has_can_repeat

\* a candidate set that filters nothing
unobserved_of_unfiltered(e) == 0..(n_item - 1)

\* a candidate set that filters the observed items whatever can_repeat is
unobserved_of_always_filtered(e) ==
    ((0..(n_item - 1)) \ users[e.user].observed) \cup {e.item}

\* a candidate set that filters the observed items and forgets the true item
unobserved_of_without_true_item(e) ==
    IF can_repeat
    THEN 0..(n_item - 1)
    ELSE (0..(n_item - 1)) \ users[e.user].observed

\* the candidate set of evaluate: set(range(n_item)), minus the observed items
\* of the user plus the true item unless repeats are allowed
unobserved_of(e) ==
    IF can_repeat
    THEN 0..(n_item - 1)
    ELSE ((0..(n_item - 1)) \ users[e.user].observed) \cup {e.item}

\* the set batch_evaluate's all_items (and unobserved, the same object) holds
\* after the event e
batch_unobserved_of(e) ==
    IF can_repeat
    THEN all_items
    ELSE (all_items \ users[e.user].observed) \cup {e.item}

\* np.mean(percentiles): nan for an empty array or an entry 0/0, else the
\* fraction num/den
RECURSIVE ProdDen(_)
ProdDen(ps) == IF ps = <<>> THEN 1 ELSE Head(ps)[2] * ProdDen(Tail(ps))

RECURSIVE SumNum(_, _)
SumNum(ps, d) == IF ps = <<>> THEN 0 ELSE Head(ps)[1] * (d \div Head(ps)[2]) + SumNum(Tail(ps), d)

\* MPR before the first batch_evaluate of a fit has returned
NoMPR == [nan |-> TRUE, num |-> 0, den |-> 0]

Mean(ps) ==
    IF ps = <<>> \/ \E p \in DOMAIN ps : ps[p][2] = 0
    THEN [nan |-> TRUE, num |-> 0, den |-> 1]
    ELSE [nan |-> FALSE, num |-> SumNum(ps, ProdDen(ps)), den |-> ProdDen(ps) * Len(ps)]

\* ------------------------------------------------------- repeated runs
\* the record of a fit or evaluate call as it is entered
Entry(op, tr, te, ne, evs) ==
    [op |-> op, tr |-> tr, te |-> te, ne |-> ne, evs |-> evs,
     has_cr |-> has_can_repeat, cr |-> can_repeat, calls |-> <<>>, results |-> <<>>]

Entered(e) == IF run = 0 THEN hist ELSE Append(hist, e)

\* the record of the call that ends, completed with its calls and results
Ended ==
    IF run = 0 THEN hist
    ELSE [hist EXCEPT ![Len(hist)].calls = calls, ![Len(hist)].results = results]

\* the repetition of a run makes the calls of the first run, with the same
\* inputs and the same can_repeat
Repeats(e) ==
    run = 2 => /\ Len(hist) < Len(prev)
               /\ LET f == prev[Len(hist) + 1]
                  IN  /\ f.op = e.op /\ f.tr = e.tr /\ f.te = e.te /\ f.ne = e.ne
                      /\ f.evs = e.evs /\ f.has_cr = e.has_cr /\ f.cr = e.cr

\* ------------------------------------------------------------------ Init
\* The state after Evaluator(recommender): __init__ has set is_feature_rec and
\* called init_model; can_repeat is not an attribute yet.  The recommender is
\* the random baseline or a deterministic one.
Constructed ==
    /\ is_feature_rec \in BOOLEAN
    /\ users = EmptyFcn
    /\ items = {}
    /\ n_user = 0
    /\ n_item = 0
    /\ freq = EmptyFcn
    /\ has_can_repeat = FALSE
    /\ can_repeat = FALSE
    /\ pc = "idle"
    /\ fault = ""
    /\ n_calls = 0
    /\ train_events = <<>>
    /\ test_events = <<>>
    /\ n_epoch = 1
    /\ epoch = 0
    /\ i = 1
    /\ all_items = {}
    /\ percentiles = <<>>
    /\ MPR = NoMPR
    /\ eval_events = <<>>
    /\ gen_i = 1
    /\ target = <<>>
    /\ recos = <<>>
    /\ scores = <<>>
    /\ rank = 0
    /\ calls = <<Call("init_model", -1, -1, {}, FALSE, "init", 0)>>
    /\ results = <<>>
    /\ hist = <<>>
    /\ prev = <<>>

Init ==
    /\ rec_kind \in {"random", "popular"}
    /\ run = 0
    /\ Constructed

\* ------------------------------------------------------------------ caller
\* set_can_repeat(v), between calls or between two pulls of the generator
set_can_repeat(v) ==
    /\ pc \in {"idle", "suspended"}
    /\ has_can_repeat' = TRUE
    /\ can_repeat' = v
    /\ UNCHANGED <<rec_kind, is_feature_rec, histVars, recVars, pc, fault, n_calls,
                   fitLocals, i, genLocals, calls, results>>

\* -------------------------------------------------------------------- fit
\* a fit that starts without resetting the model
fit_without_init_model(tr, te, ne) ==
    /\ pc = "idle"
    /\ n_calls < MaxCalls
    /\ DenseFrom(0, 0, tr \o te)
    /\ Repeats(Entry("fit", tr, te, ne, <<>>))
    /\ hist' = Entered(Entry("fit", tr, te, ne, <<>>))
    /\ n_calls' = n_calls + 1
    /\ train_events' = tr
    /\ test_events' = te
    /\ n_epoch' = ne
    /\ epoch' = 0
    /\ i' = 1
    /\ all_items' = {}
    /\ percentiles' = <<>>
    /\ MPR' = NoMPR
    /\ calls' = <<>>
    /\ pc' = "fit_bootstrap"
    /\ UNCHANGED <<configVars, run, prev, recVars, fault, genLocals, results>>

\* fit(train_events, test_events, n_epoch) is entered: self.rec.init_model()
fit(tr, te, ne) ==
    /\ pc = "idle"
    /\ n_calls < MaxCalls
    /\ DenseFrom(0, 0, tr \o te)
    /\ Repeats(Entry("fit", tr, te, ne, <<>>))
    /\ hist' = Entered(Entry("fit", tr, te, ne, <<>>))
    /\ n_calls' = n_calls + 1
    /\ users' = EmptyFcn
    /\ items' = {}
    /\ n_user' = 0
    /\ n_item' = 0
    /\ freq' = EmptyFcn
    /\ train_events' = tr
    /\ test_events' = te
    /\ n_epoch' = ne
    /\ epoch' = 0
    /\ i' = 1
    /\ all_items' = {}
    /\ percentiles' = <<>>
    /\ MPR' = NoMPR
    /\ calls' = <<Call("init_model", -1, -1, {}, FALSE, "init", 0)>>
    /\ pc' = "fit_bootstrap"
    /\ UNCHANGED <<configVars, run, prev, fault, genLocals, results>>

\* a bootstrap pass that also updates the model with each train event
fit_bootstrap_updating ==
    /\ pc = "fit_bootstrap"
    /\ IF i <= Len(train_events)
       THEN LET e == train_events[i]
                vu == validate_user(e, "bootstrap", i)
                vi == validate_item(e, "bootstrap", i)
            IN  /\ users' = observe(vu.users, e)
                /\ n_user' = vu.n_user
                /\ items' = vi.items
                /\ n_item' = vi.n_item
                /\ freq' = vi.freq
                /\ calls' = calls \o vu.log \o vi.log
                              \o <<Call("observe", e.user, e.item, {}, FALSE, "bootstrap", i)>>
                              \o update_calls(e, TRUE, "bootstrap", i)
                /\ i' = i + 1
                /\ pc' = pc
       ELSE /\ i' = 1
            /\ pc' = "fit_prereg"
            /\ UNCHANGED <<recVars, calls>>
    /\ UNCHANGED <<configVars, histVars, fault, n_calls, fitLocals, genLocals, results>>

\* for e in train_events: self.__validate(e); observed.add(e.item.index)
fit_bootstrap ==
    /\ pc = "fit_bootstrap"
    /\ IF i <= Len(train_events)
       THEN LET e == train_events[i]
                vu == validate_user(e, "bootstrap", i)
                vi == validate_item(e, "bootstrap", i)
            IN  /\ users' = observe(vu.users, e)
                /\ n_user' = vu.n_user
                /\ items' = vi.items
                /\ n_item' = vi.n_item
                /\ freq' = vi.freq
                /\ calls' = calls \o vu.log \o vi.log
                              \o <<Call("observe", e.user, e.item, {}, FALSE, "bootstrap", i)>>
                /\ i' = i + 1
                /\ pc' = pc
       ELSE /\ i' = 1
            /\ pc' = "fit_prereg"
            /\ UNCHANGED <<recVars, calls>>
    /\ UNCHANGED <<configVars, histVars, fault, n_calls, fitLocals, genLocals, results>>

\* a pre-registration that marks the test items observed, as the bootstrap
\* pass does for the train items
fit_prereg_observing ==
    /\ pc = "fit_prereg"
    /\ IF i <= Len(test_events)
       THEN LET e == test_events[i]
                vu == validate_user(e, "prereg", i)
                vi == validate_item(e, "prereg", i)
            IN  /\ users' = observe(vu.users, e)
                /\ n_user' = vu.n_user
                /\ items' = vi.items
                /\ n_item' = vi.n_item
                /\ freq' = vi.freq
                /\ calls' = calls \o vu.log \o vi.log
                /\ i' = i + 1
                /\ pc' = pc
       ELSE /\ i' = 1
            /\ pc' = "batch_epoch"
            /\ UNCHANGED <<recVars, calls>>
    /\ UNCHANGED <<configVars, histVars, fault, n_calls, fitLocals, genLocals, results>>

\* for e in test_events: self.__validate(e)
fit_prereg ==
    /\ pc = "fit_prereg"
    /\ IF i <= Len(test_events)
       THEN LET e == test_events[i]
                vu == validate_user(e, "prereg", i)
                vi == validate_item(e, "prereg", i)
            IN  /\ users' = vu.users
                /\ n_user' = vu.n_user
                /\ items' = vi.items
                /\ n_item' = vi.n_item
                /\ freq' = vi.freq
                /\ calls' = calls \o vu.log \o vi.log
                /\ i' = i + 1
                /\ pc' = pc
       ELSE /\ i' = 1
            /\ pc' = "batch_epoch"
            /\ UNCHANGED <<recVars, calls>>
    /\ UNCHANGED <<configVars, histVars, fault, n_calls, fitLocals, genLocals, results>>

\* a shuffle made whatever n_epoch is
shuffled_always(evs, ne) == Perms(evs)

\* a step that reverses the list when n_epoch is 1
shuffled_reversing(evs, ne) ==
    IF ne # 1 THEN Perms(evs) ELSE {[k \in DOMAIN evs |-> evs[Len(evs) + 1 - k]]}

\* np.random.shuffle(train_events), made only if n_epoch != 1: the orders the
\* list can have afterwards
shuffled(evs, ne) == IF ne # 1 THEN Perms(evs) ELSE {evs}

\* an epoch loop that stops early once an MPR of 0 was computed
batch_update_gated ==
    /\ pc = "batch_epoch"
    /\ IF epoch < n_epoch /\ (MPR.nan \/ MPR.num > 0)
       THEN /\ train_events' \in shuffled(train_events, n_epoch)
            /\ pc' = "batch_train"
       ELSE /\ train_events' = train_events
            /\ pc' = "fit_foldin"
    /\ i' = 1
    /\ UNCHANGED <<configVars, histVars, recVars, fault, n_calls, test_events, n_epoch, epoch,
                   all_items, percentiles, MPR, genLocals, calls, results>>

\* for epoch in range(n_epoch): the head of one iteration, or the end of the
\* loop, after which fit goes on to its fold-in
batch_update ==
    /\ pc = "batch_epoch"
    /\ IF epoch < n_epoch
       THEN /\ train_events' \in shuffled(train_events, n_epoch)
            /\ pc' = "batch_train"
       ELSE /\ train_events' = train_events
            /\ pc' = "fit_foldin"
    /\ i' = 1
    /\ UNCHANGED <<configVars, histVars, recVars, fault, n_calls, test_events, n_epoch, epoch,
                   all_items, percentiles, MPR, genLocals, calls, results>>

\* for e in train_events: self.__update(e, is_batch_train=True); then
\* batch_evaluate is entered: percentiles, all_items = set(range(n_item))
batch_train ==
    /\ pc = "batch_train"
    /\ IF i <= Len(train_events)
       THEN LET e == train_events[i]
            IN  /\ freq' = rec_update(e.item)
                /\ calls' = calls \o update_calls(e, TRUE, "train", i)
                /\ i' = i + 1
                /\ pc' = pc
                /\ UNCHANGED <<all_items, percentiles>>
       ELSE /\ percentiles' = <<>>
            /\ all_items' = 0..(n_item - 1)
            /\ i' = 1
            /\ pc' = "batch_eval"
            /\ UNCHANGED <<freq, calls>>
    /\ UNCHANGED <<configVars, histVars, users, items, n_user, n_item, fault, n_calls,
                   train_events, test_events, n_epoch, epoch, MPR, genLocals, results>>

\* one iteration of batch_evaluate's loop, or its return and the end of the
\* epoch (MPR is logged)
batch_evaluate ==
    /\ pc = "batch_eval"
    /\ IF i <= Len(test_events)
       THEN LET e == test_events[i]
            IN  IF ~can_repeat_is_set
                THEN /\ pc' = "error"
                     /\ fault' = "AttributeError"
                     /\ UNCHANGED <<all_items, percentiles, MPR, epoch, i, target,
                                    recos, scores, calls>>
                ELSE /\ all_items' = batch_unobserved_of(e)
                     /\ target' = SortedSeq(batch_unobserved_of(e))
                     /\ \E r \in recommend(e.user, SortedSeq(batch_unobserved_of(e))) :
                           /\ recos' = r.recos
                           /\ scores' = r.scores
                           /\ IF PosOf(r.recos, e.item) < 0
                              THEN /\ pc' = "error"
                                   /\ fault' = "IndexError"
                                   /\ percentiles' = percentiles
                              ELSE /\ pc' = pc
                                   /\ fault' = fault
                                   /\ percentiles' = Append(percentiles,
                                         <<PosOf(r.recos, e.item) * 100, Len(r.recos) - 1>>)
                     /\ calls' = calls \o recommend_calls(e, SortedSeq(batch_unobserved_of(e)),
                                                          "batch_eval", i)
                     /\ i' = i + 1
                     /\ UNCHANGED <<MPR, epoch>>
       ELSE /\ MPR' = Mean(percentiles)
            /\ epoch' = epoch + 1
            /\ i' = 1
            /\ pc' = "batch_epoch"
            /\ all_items' = {}
            /\ percentiles' = <<>>
            /\ target' = <<>>
            /\ recos' = <<>>
            /\ scores' = <<>>
            /\ UNCHANGED <<fault, calls>>
    /\ UNCHANGED <<configVars, histVars, recVars, n_calls, train_events, test_events, n_epoch,
                   eval_events, gen_i, rank, results>>

\* for e in test_events: observed.add(e.item.index); self.__update(e); then fit
\* returns and its locals are gone
fit_foldin ==
    /\ pc = "fit_foldin"
    /\ IF i <= Len(test_events)
       THEN LET e == test_events[i]
            IN  /\ users' = observe(users, e)
                /\ freq' = rec_update(e.item)
                /\ calls' = calls \o <<Call("observe", e.user, e.item, {}, FALSE, "foldin", i)>>
                              \o update_calls(e, FALSE, "foldin", i)
                /\ i' = i + 1
                /\ pc' = pc
                /\ UNCHANGED <<train_events, test_events, n_epoch, epoch, MPR, hist>>
       ELSE /\ i' = 1
            /\ pc' = "idle"
            /\ train_events' = <<>>
            /\ test_events' = <<>>
            /\ n_epoch' = 1
            /\ epoch' = 0
            /\ MPR' = NoMPR
            /\ hist' = Ended
            /\ UNCHANGED <<users, freq, calls>>
    /\ UNCHANGED <<configVars, run, prev, items, n_user, n_item, fault, n_calls, all_items,
                   percentiles, genLocals, results>>

\* --------------------------------------------------------------- evaluate
\* evaluate(test_events) is called: a generator is made, none of its body runs
evaluate(evs) ==
    /\ pc = "idle"
    /\ n_calls < MaxCalls
    /\ DenseFrom(n_user, n_item, evs)
    /\ Repeats(Entry("evaluate", <<>>, <<>>, 1, evs))
    /\ hist' = Entered(Entry("evaluate", <<>>, <<>>, 1, evs))
    /\ n_calls' = n_calls + 1
    /\ eval_events' = evs
    /\ gen_i' = 1
    /\ results' = <<>>
    /\ calls' = <<>>
    /\ pc' = "suspended"
    /\ UNCHANGED <<configVars, run, prev, recVars, fault, fitLocals, i, target, recos,
                   scores, rank>>

\* the caller pulls the next result: the generator resumes at the head of its
\* loop, and ends when the list is exhausted
pull ==
    /\ pc = "suspended"
    /\ IF gen_i <= Len(eval_events)
       THEN /\ pc' = "ev_validate"
            /\ UNCHANGED <<genLocals, hist>>
       ELSE /\ pc' = "idle"
            /\ eval_events' = <<>>
            /\ gen_i' = 1
            /\ target' = <<>>
            /\ recos' = <<>>
            /\ scores' = <<>>
            /\ rank' = 0
            /\ hist' = Ended
    /\ UNCHANGED <<configVars, run, prev, recVars, fault, n_calls, fitLocals, i, calls,
                   results>>

\* the caller stops consuming: the suspended generator is dropped with its
\* locals
abandon ==
    /\ pc = "suspended"
    /\ pc' = "idle"
    /\ eval_events' = <<>>
    /\ gen_i' = 1
    /\ target' = <<>>
    /\ recos' = <<>>
    /\ scores' = <<>>
    /\ rank' = 0
    /\ hist' = Ended
    /\ UNCHANGED <<configVars, run, prev, recVars, fault, n_calls, fitLocals, i, calls,
                   results>>

\* a validation that also marks the item observed, as the bootstrap pass of
\* fit does
evaluate_validate_observing ==
    /\ pc = "ev_validate"
    /\ LET e == eval_events[gen_i]
           vu == validate_user(e, "evaluate", gen_i)
           vi == validate_item(e, "evaluate", gen_i)
       IN  /\ users' = observe(vu.users, e)
           /\ n_user' = vu.n_user
           /\ items' = vi.items
           /\ n_item' = vi.n_item
           /\ freq' = vi.freq
           /\ calls' = calls \o vu.log \o vi.log
                         \o <<Call("observe", e.user, e.item, {}, FALSE, "evaluate", gen_i)>>
    /\ pc' = "ev_recommend"
    /\ UNCHANGED <<configVars, histVars, fault, n_calls, fitLocals, i, genLocals, results>>

\* self.__validate(e)
evaluate_validate ==
    /\ pc = "ev_validate"
    /\ LET e == eval_events[gen_i]
           vu == validate_user(e, "evaluate", gen_i)
           vi == validate_item(e, "evaluate", gen_i)
       IN  /\ users' = vu.users
           /\ n_user' = vu.n_user
           /\ items' = vi.items
           /\ n_item' = vi.n_item
           /\ freq' = vi.freq
           /\ calls' = calls \o vu.log \o vi.log
    /\ pc' = "ev_recommend"
    /\ UNCHANGED <<configVars, histVars, fault, n_calls, fitLocals, i, genLocals, results>>

\* the candidate set, self.__recommend(e, target_i_indices) and the rank
evaluate_recommend ==
    /\ pc = "ev_recommend"
    /\ LET e == eval_events[gen_i]
       IN  IF ~can_repeat_is_set
           THEN /\ pc' = "error"
                /\ fault' = "AttributeError"
                /\ UNCHANGED <<target, recos, scores, rank, calls>>
           ELSE /\ target' = SortedSeq(unobserved_of(e))
                /\ \E r \in recommend(e.user, SortedSeq(unobserved_of(e))) :
                      /\ recos' = r.recos
                      /\ scores' = r.scores
                      /\ IF PosOf(r.recos, e.item) < 0
                         THEN /\ pc' = "error"
                              /\ fault' = "IndexError"
                              /\ rank' = rank
                         ELSE /\ pc' = "ev_observe"
                              /\ fault' = fault
                              /\ rank' = PosOf(r.recos, e.item)
                /\ calls' = calls \o recommend_calls(e, SortedSeq(unobserved_of(e)),
                                                     "evaluate", gen_i)
    /\ UNCHANGED <<configVars, histVars, recVars, n_calls, fitLocals, i, eval_events, gen_i,
                   results>>

\* an observed.add after which the result is yielded at once, the update left
\* out of the step the caller waits for
evaluate_observe_yielding ==
    /\ pc = "ev_observe"
    /\ LET e == eval_events[gen_i]
       IN  /\ users' = observe(users, e)
           /\ calls' = Append(calls, Call("observe", e.user, e.item, {}, FALSE,
                                          "evaluate", gen_i))
    /\ pc' = "ev_yield"
    /\ UNCHANGED <<configVars, histVars, items, n_user, n_item, freq, fault, n_calls, fitLocals,
                   i, genLocals, results>>

\* an observed.add that marks the item observed for every registered user
evaluate_observe_all_users ==
    /\ pc = "ev_observe"
    /\ LET e == eval_events[gen_i]
       IN  /\ users' = [u \in DOMAIN users |->
                            [observed |-> users[u].observed \cup {e.item}]]
           /\ calls' = Append(calls, Call("observe", e.user, e.item, {}, FALSE,
                                          "evaluate", gen_i))
    /\ pc' = "ev_update"
    /\ UNCHANGED <<configVars, histVars, items, n_user, n_item, freq, fault, n_calls, fitLocals,
                   i, genLocals, results>>

\* self.rec.users[e.user.index]['observed'].add(e.item.index)
evaluate_observe ==
    /\ pc = "ev_observe"
    /\ LET e == eval_events[gen_i]
       IN  /\ users' = observe(users, e)
           /\ calls' = Append(calls, Call("observe", e.user, e.item, {}, FALSE,
                                          "evaluate", gen_i))
    /\ pc' = "ev_update"
    /\ UNCHANGED <<configVars, histVars, items, n_user, n_item, freq, fault, n_calls, fitLocals,
                   i, genLocals, results>>

\* self.__update(e)
evaluate_update ==
    /\ pc = "ev_update"
    /\ LET e == eval_events[gen_i]
       IN  /\ freq' = rec_update(e.item)
           /\ calls' = calls \o update_calls(e, FALSE, "evaluate", gen_i)
    /\ pc' = "ev_yield"
    /\ UNCHANGED <<configVars, histVars, users, items, n_user, n_item, fault, n_calls,
                   fitLocals, i, genLocals, results>>

\* a yield of the score of the true item in place of the top-1 score
evaluate_yield_true_score ==
    /\ pc = "ev_yield"
    /\ results' = Append(results, [top1 |-> scores[rank + 1], rank |-> rank, k |-> gen_i])
    /\ gen_i' = gen_i + 1
    /\ pc' = "suspended"
    /\ UNCHANGED <<configVars, histVars, recVars, fault, n_calls, fitLocals, i, eval_events,
                   target, recos, scores, rank, calls>>

\* yield scores[0], rank, recommend_time, update_time: the generator is
\* suspended until the next pull (the two durations are left out)
evaluate_yield ==
    /\ pc = "ev_yield"
    /\ results' = Append(results, [top1 |-> scores[1], rank |-> rank, k |-> gen_i])
    /\ gen_i' = gen_i + 1
    /\ pc' = "suspended"
    /\ UNCHANGED <<configVars, histVars, recVars, fault, n_calls, fitLocals, i, eval_events,
                   target, recos, scores, rank, calls>>

\* ------------------------------------------------------------------ Next
Next ==
    \/ \E v \in BOOLEAN : set_can_repeat(v)
    \/ \E tr \in DenseLists(0, 0, MaxTrain) :
         \E te \in DenseLists(UsersAfter(0, tr), ItemsAfter(0, tr), MaxTest) :
           \E ne \in 1..MaxEpoch : fit(tr, te, ne)
    \/ fit_bootstrap
    \/ fit_prereg
    \/ batch_update
    \/ batch_train
    \/ batch_evaluate
    \/ fit_foldin
    \/ \E evs \in DenseLists(n_user, n_item, MaxStream) : evaluate(evs)
    \/ pull
    \/ abandon
    \/ evaluate_validate
    \/ evaluate_recommend
    \/ evaluate_observe
    \/ evaluate_update
    \/ evaluate_yield

Spec == Init /\ [][Next]_vars

\* ------------------------------------ a run and its repetition
MaxRepeatTrain == 2

\* The first run, a fit and an evaluate drained to its end, is over: a new
\* recommender of the same kind and a new Evaluator are constructed, for a
\* second run with the inputs of the first.
rerun ==
    /\ run = 1
    /\ pc = "idle"
    /\ Len(hist) = 2
    /\ run' = 2
    /\ prev' = hist
    /\ hist' = <<>>
    /\ users' = EmptyFcn
    /\ items' = {}
    /\ n_user' = 0
    /\ n_item' = 0
    /\ freq' = EmptyFcn
    /\ has_can_repeat' = FALSE
    /\ can_repeat' = FALSE
    /\ n_calls' = 0
    /\ calls' = <<Call("init_model", -1, -1, {}, FALSE, "init", 0)>>
    /\ results' = <<>>
    /\ UNCHANGED <<rec_kind, is_feature_rec, pc, fault, fitLocals, i, genLocals>>

\* a deterministic recommender, and runs that are recorded: set_can_repeat,
\* then fit with the default n_epoch, then evaluate
InitRepeat ==
    /\ rec_kind = "popular"
    /\ run = 1
    /\ Constructed

NextRepeat ==
    \/ \E v \in BOOLEAN : pc = "idle" /\ n_calls = 0 /\ set_can_repeat(v)
    \/ \E tr \in DenseLists(0, 0, MaxRepeatTrain) :
         \E te \in DenseLists(UsersAfter(0, tr), ItemsAfter(0, tr), MaxTest) :
           n_calls = 0 /\ fit(tr, te, 1)
    \/ fit_bootstrap
    \/ fit_prereg
    \/ batch_update
    \/ batch_train
    \/ batch_evaluate
    \/ fit_foldin
    \/ \E evs \in DenseLists(n_user, n_item, MaxStream) : n_calls = 1 /\ evaluate(evs)
    \/ pull
    \/ evaluate_validate
    \/ evaluate_recommend
    \/ evaluate_observe
    \/ evaluate_update
    \/ evaluate_yield
    \/ rerun

SpecRepeat == InitRepeat /\ [][NextRepeat]_vars

\* ------------------------------------ epochs over several train events
\* one recorded run: set_can_repeat, then a fit over up to MaxRepeatTrain train
\* events with any n_epoch, then an evaluate
NextEpochs ==
    \/ \E v \in BOOLEAN : pc = "idle" /\ n_calls = 0 /\ set_can_repeat(v)
    \/ \E tr \in DenseLists(0, 0, MaxRepeatTrain) :
         \E te \in DenseLists(UsersAfter(0, tr), ItemsAfter(0, tr), MaxTest) :
           \E ne \in 1..MaxEpoch : n_calls = 0 /\ fit(tr, te, ne)
    \/ fit_bootstrap
    \/ fit_prereg
    \/ batch_update
    \/ batch_train
    \/ batch_evaluate
    \/ fit_foldin
    \/ \E evs \in DenseLists(n_user, n_item, MaxStream) : n_calls = 1 /\ evaluate(evs)
    \/ pull
    \/ abandon
    \/ evaluate_validate
    \/ evaluate_recommend
    \/ evaluate_observe
    \/ evaluate_update
    \/ evaluate_yield

SpecEpochs == InitRepeat /\ [][NextEpochs]_vars

\* ------------------------------------------------- the scenario of 3 users
\* and 4 items: user 0 interacts with the items 0 and 1 in training, the
\* users 1 and 2 bring the items 2 and 3; fit runs with its default n_epoch
ScenarioTrain == <<Event(0, 0), Event(0, 1), Event(1, 2), Event(2, 3)>>

ScenarioTests ==
    {<<>>, <<Event(0, 2)>>, <<Event(0, 2), Event(1, 3)>>, <<Event(2, 2), Event(0, 2)>>}

ScenarioStreams ==
    {<<>>, <<Event(0, 2)>>, <<Event(1, 0), Event(0, 2)>>, <<Event(0, 2), Event(0, 3)>>}

NextScenario ==
    \/ \E v \in BOOLEAN : set_can_repeat(v)
    \/ \E te \in ScenarioTests : fit(ScenarioTrain, te, 1)
    \/ fit_bootstrap
    \/ fit_prereg
    \/ batch_update
    \/ batch_train
    \/ batch_evaluate
    \/ fit_foldin
    \/ \E evs \in ScenarioStreams : evaluate(evs)
    \/ pull
    \/ abandon
    \/ evaluate_validate
    \/ evaluate_recommend
    \/ evaluate_observe
    \/ evaluate_update
    \/ evaluate_yield

SpecScenario == Init /\ [][NextScenario]_vars

\* ------------------------------------------------------------ properties
GenPcs == {"suspended", "ev_validate", "ev_recommend", "ev_observe", "ev_update", "ev_yield"}

FitPcs == {"fit_bootstrap", "fit_prereg", "batch_epoch", "batch_train", "batch_eval",
           "fit_foldin"}

\* the entries of the log made by evaluate for its k-th event with operation op
EvalEntries(op, k) ==
    {p \in DOMAIN calls : calls[p].phase = "evaluate" /\ calls[p].op = op /\ calls[p].k = k}

\* C1: in evaluate, for every event, recommend is called first, then the item
\* is added to the user's observed set, then update is called: neither the
\* insertion nor the update of an event precedes its recommend call, and the
\* update does not precede the insertion.
C1_RecommendObserveUpdate ==
    \A p \in DOMAIN calls :
        calls[p].phase = "evaluate" =>
            /\ calls[p].op = "recommend" =>
                  \A q \in 1..(p - 1) :
                      ~(calls[q].k = calls[p].k /\ calls[q].op \in {"observe", "update"})
            /\ calls[p].op = "observe" =>
                  /\ \E q \in 1..(p - 1) :
                        /\ calls[q].op = "recommend" /\ calls[q].k = calls[p].k
                        /\ calls[q].user = calls[p].user /\ calls[q].item = calls[p].item
                  /\ \A q \in 1..(p - 1) : ~(calls[q].k = calls[p].k /\ calls[q].op = "update")
            /\ calls[p].op = "update" =>
                  \E q \in 1..(p - 1) :
                      /\ calls[q].op = "observe" /\ calls[q].k = calls[p].k
                      /\ calls[q].user = calls[p].user /\ calls[q].item = calls[p].item

\* the second event of a stream has been scored, marked observed and used for
\* an update, after a first event of the same user
C1_Witness ==
    /\ pc = "ev_yield"
    /\ gen_i = 2
    /\ eval_events[1].user = eval_events[2].user
    /\ EvalEntries("recommend", 2) # {}
    /\ EvalEntries("observe", 2) # {}
    /\ EvalEntries("update", 2) # {}

\* C2: evaluate yields one result per event, in input order, and is driven by
\* the caller's pulls: while a generator lives, the results yielded are those
\* of the events before gen_i; the log holds the work of the events in input
\* order, all of event j before any of event j + 1; each event that yielded
\* its result has exactly one observed.add and one update, of its own user and
\* item; and while the generator is suspended (where the caller may stop)
\* nothing in the log (registration, recommend, observed.add, update) belongs
\* to an event that has not yielded its result.
C2_PullDriven ==
    pc \in GenPcs =>
        /\ gen_i <= Len(eval_events) + 1
        /\ Len(results) = gen_i - 1
        /\ \A j \in DOMAIN results : results[j].k = j
        /\ \A p \in DOMAIN calls :
              /\ calls[p].phase = "evaluate"
              /\ calls[p].k \in 1..gen_i
              /\ pc \in {"suspended", "ev_validate"} => calls[p].k <= Len(results)
        /\ \A p, q \in DOMAIN calls : p < q => calls[p].k <= calls[q].k
        /\ \A j \in DOMAIN results :
              /\ Cardinality(EvalEntries("observe", j)) = 1
              /\ Cardinality(EvalEntries("update", j)) = 1
              /\ Cardinality(EvalEntries("recommend", j)) = 1
              /\ \A p \in EvalEntries("observe", j) \cup EvalEntries("update", j) :
                    /\ calls[p].user = eval_events[j].user
                    /\ calls[p].item = eval_events[j].item
                    /\ eval_events[j].item \in users[eval_events[j].user].observed

\* the caller has consumed one result of a stream of two events that brings a
\* new user and a new item with its second event: it may stop here, and the
\* second event has registered nothing
C2_Witness ==
    /\ pc = "suspended"
    /\ Len(eval_events) = 2
    /\ Len(results) = 1
    /\ eval_events[2].user \notin DOMAIN users
    /\ eval_events[2].item \notin items

\* C3: in batch_evaluate with can_repeat == False, the candidate set passed to
\* recommend for a test event (the first and every later one) is exactly the
\* registered items minus the observed set of the event's user, plus the
\* event's item, whatever events were evaluated before it in the same call.
\* (The observed sets and the registered items do not change during
\* batch_evaluate, so the state right after the step is that of the call.)
C3_BatchCandidates ==
    (pc = "batch_eval" /\ i > 1 /\ has_can_repeat /\ ~can_repeat) =>
        Range(target) = (items \ users[test_events[i - 1].user].observed)
                            \cup {test_events[i - 1].item}

\* C4: in evaluate the candidate set passed to recommend is built from the
\* state at that moment: the registered items minus the observed set of the
\* event's user plus the event's item when can_repeat == False, and all the
\* registered items when can_repeat == True.  (pc = "ev_observe" is the state
\* right after the recommend call, before anything else changes.)
C4_EvaluateCandidates ==
    pc = "ev_observe" =>
        LET e == eval_events[gen_i]
        IN  /\ calls[Len(calls)].op = "recommend"
            /\ calls[Len(calls)].cands = Range(target)
            /\ Range(target) = IF can_repeat
                               THEN items
                               ELSE (items \ users[e.user].observed) \cup {e.item}

\* an event scored without repeats for a user whose observed set holds the
\* event's item and another item
C4_Witness ==
    /\ pc = "ev_observe"
    /\ ~can_repeat
    /\ eval_events[gen_i].item \in users[eval_events[gen_i].user].observed
    /\ users[eval_events[gen_i].user].observed # {eval_events[gen_i].item}

\* C5: every result evaluate yields has 0 <= rank < size of the candidate set
\* of its event, the true item is a member of that candidate set (at position
\* rank of the ranking), also when the user had observed the item before the
\* event; the search for the true item never fails.
C5_RankBounds ==
    /\ fault # "IndexError"
    /\ pc = "ev_yield" =>
          /\ 0 <= rank
          /\ rank < Len(target)
          /\ Len(recos) = Len(target)
          /\ eval_events[gen_i].item \in Range(target)
          /\ recos[rank + 1] = eval_events[gen_i].item

\* a result is about to be yielded, without repeats, for an item the user had
\* observed before this event
C5_Witness ==
    /\ pc = "ev_yield"
    /\ has_can_repeat
    /\ ~can_repeat
    /\ gen_i = 2
    /\ eval_events[1] = eval_events[2]
    /\ Len(target) = 2

\* C6: at every update and recommend call of fit and evaluate the user index
\* and the item index of the event are registered, and add_user / add_item are
\* called only for a new index: no index is registered twice, so the counters
\* n_user, n_item count the registered indices.
C6_RegisteredBeforeUse ==
    /\ \A p \in DOMAIN calls :
          calls[p].op \in {"update", "recommend"} =>
              /\ calls[p].user \in DOMAIN users
              /\ calls[p].item \in items
    /\ \A p, q \in DOMAIN calls :
          p < q => /\ ~(calls[p].op = "add_user" /\ calls[q].op = "add_user"
                        /\ calls[p].user = calls[q].user)
                   /\ ~(calls[p].op = "add_item" /\ calls[q].op = "add_item"
                        /\ calls[p].item = calls[q].item)
    /\ n_user = Cardinality(DOMAIN users)
    /\ n_item = Cardinality(items)

\* an update of evaluate for an event that brought a new user and a new item,
\* after an event of a known user and item
C6_Witness ==
    /\ pc = "ev_yield"
    /\ gen_i = 2
    /\ EvalEntries("add_user", 2) # {}
    /\ EvalEntries("add_item", 2) # {}
    /\ EvalEntries("add_user", 1) = {}
    /\ EvalEntries("update", 2) # {}

\* C8 as claimed: over any sequence of fit and evaluate steps the sets of
\* registered user indices and of registered item indices never shrink.
C8_NeverShrink ==
    [][(DOMAIN users) \subseteq (DOMAIN users') /\ items \subseteq items']_vars

\* C8, amended: the sets of registered user and item indices never shrink at
\* any step of fit or evaluate but the entry of fit, whose init_model empties
\* both.
C8_ShrinkOnlyAtFitEntry ==
    [][IF pc = "idle" /\ pc' = "fit_bootstrap"
       THEN DOMAIN users' = {} /\ items' = {} /\ n_user' = 0 /\ n_item' = 0
       ELSE (DOMAIN users) \subseteq (DOMAIN users') /\ items \subseteq items']_vars

\* evaluate has registered the new user and the new item of its first event
\* on a model that fit had filled
C8_Witness ==
    /\ pc = "ev_recommend"
    /\ gen_i = 1
    /\ EvalEntries("add_user", 1) # {}
    /\ EvalEntries("add_item", 1) # {}
    /\ \E u \in DOMAIN users : users[u].observed # {}

InEmptyFit == pc \in FitPcs /\ train_events = <<>> /\ test_events = <<>>

InEmptyEvaluate == pc \in GenPcs /\ eval_events = <<>>

NoEntityCall(log) ==
    \A p \in DOMAIN log :
        log[p].op \notin {"add_user", "add_item", "observe", "update", "recommend"}

\* C9 as claimed: fit with no train and no test event, and evaluate with no
\* event, run without a fault and as a no-op: no step of theirs registers an
\* entity, changes an observed set, or calls update or recommend, and evaluate
\* yields nothing.
C9_EmptyInputsNoOp ==
    [][(InEmptyFit \/ InEmptyFit' \/ InEmptyEvaluate \/ InEmptyEvaluate') =>
          /\ pc' # "error"
          /\ users' = users
          /\ items' = items
          /\ NoEntityCall(calls')
          /\ results' = results \/ results' = <<>>]_vars

\* C9, amended: fit with no train and no test event runs without a fault and
\* does nothing but its init_model, which resets the model to no registered
\* user or item (a no-op on a model that has none): it registers nothing and
\* calls neither update nor recommend; evaluate with no event is a no-op that
\* yields nothing.
C9_EmptyInputsOnlyReset ==
    [][(InEmptyFit \/ InEmptyFit' \/ InEmptyEvaluate \/ InEmptyEvaluate') =>
          /\ pc' # "error"
          /\ NoEntityCall(calls')
          /\ IF pc = "idle" /\ InEmptyFit'
             THEN /\ users' = EmptyFcn /\ items' = {} /\ n_user' = 0 /\ n_item' = 0
                  /\ freq' = EmptyFcn
                  /\ Len(calls') = 1 /\ calls'[1].op = "init_model"
             ELSE /\ UNCHANGED recVars
                  /\ InEmptyFit => calls' = calls
          /\ (InEmptyEvaluate \/ InEmptyEvaluate') => calls' = <<>> /\ results' = <<>>]_vars

\* a fit with empty lists has returned, with can_repeat never set, on a model
\* for which an earlier evaluate had yielded a result
C9_Witness ==
    /\ pc = "idle"
    /\ n_calls = 2
    /\ Len(calls) = 1
    /\ calls[1].op = "init_model"
    /\ results # <<>>
    /\ users = EmptyFcn

\* the model of the scenario: 3 users, 4 registered items, user 0 has
\* observed the items 0 and 1, repeats are not allowed
InScenario ==
    /\ has_can_repeat
    /\ ~can_repeat
    /\ n_user = 3
    /\ DOMAIN users = {0, 1, 2}
    /\ items = {0, 1, 2, 3}
    /\ users[0].observed = {0, 1}

\* evaluate has just scored an event of user 0 on item 2 in the scenario
ScenarioScoredByEvaluate ==
    /\ pc = "ev_observe"
    /\ eval_events[gen_i] = Event(0, 2)
    /\ InScenario

\* batch_evaluate has just scored, as the first event of its list, an event
\* of user 0 on item 2 in the scenario
ScenarioScoredFirstByBatch ==
    /\ pc = "batch_eval"
    /\ i = 2
    /\ test_events[1] = Event(0, 2)
    /\ InScenario

\* C7 as claimed: in the scenario the test event of user 0 on item 2 gets a
\* candidate set of size 3.
C7_ScenarioSizeThree ==
    (ScenarioScoredByEvaluate \/ ScenarioScoredFirstByBatch) => Len(target) = 3

\* C7, amended: in the scenario the test event of user 0 on item 2 gets the
\* candidate set {2, 3}, of size 2 (the 4 items minus the observed items 0 and
\* 1; item 2 is already among the unobserved ones), in evaluate and, as the
\* first test event of the list, in batch_evaluate.
C7_ScenarioSizeTwo ==
    (ScenarioScoredByEvaluate \/ ScenarioScoredFirstByBatch) =>
        /\ Len(target) = 2
        /\ Range(target) = {2, 3}
        /\ calls[Len(calls)].op = "recommend"
        /\ calls[Len(calls)].cands = {2, 3}

\* the event of the scenario has been scored by evaluate as the second event
\* of its stream
C7_Witness ==
    /\ ScenarioScoredByEvaluate
    /\ gen_i = 2
\* ------------------------------------------------------------------- C10
Prefix(a, b) == Len(a) <= Len(b) /\ \A k \in 1..Len(a) : a[k] = b[k]

FirstRunDefaultEpoch == \A j \in DOMAIN prev : prev[j].op = "fit" => prev[j].ne = 1

\* C10: with n_epoch = 1 and a deterministic recommender, the second run of
\* fit then evaluate over the inputs of the first makes the same calls with
\* the same candidate sets, in the same order, and yields the same
\* (rank, top-1 score) results: every call that has ended equals its
\* counterpart of the first run, the call under way has made a prefix of its
\* counterpart's calls and results, and no fault is raised.
C10_RepeatedRunIdentical ==
    (run = 2 /\ rec_kind = "popular" /\ FirstRunDefaultEpoch) =>
        /\ pc # "error"
        /\ \A j \in 1..Len(hist) :
              (j < Len(hist) \/ pc = "idle") =>
                  /\ hist[j].calls = prev[j].calls
                  /\ hist[j].results = prev[j].results
        /\ (hist # <<>> /\ pc # "idle") =>
              /\ Prefix(calls, prev[Len(hist)].calls)
              /\ Prefix(results, prev[Len(hist)].results)

\* the second run has ended: a fit over two different training events and a
\* test event, then an evaluate that yielded two results
C10_Witness ==
    /\ run = 2
    /\ pc = "idle"
    /\ Len(hist) = 2
    /\ hist[1].op = "fit"
    /\ hist[1].ne = 1
    /\ Len(hist[1].tr) = 2
    /\ hist[1].tr[1] # hist[1].tr[2]
    /\ hist[1].te # <<>>
    /\ hist[2].op = "evaluate"
    /\ Len(hist[2].results) = 2

\* ------------------------------------------------------------------- C11
\* batch_evaluate has just scored the test event at position i - 1
BatchScored == pc = "batch_eval" /\ i > 1

\* the percentile of the event just scored is pos / (len(recos) - 1) * 100,
\* pos the 0-based position of the true item in the ranking of the candidates
PercentileOfEvent ==
    BatchScored =>
        /\ Len(percentiles) = i - 1
        /\ Len(recos) = Len(target)
        /\ percentiles[i - 1] = <<PosOf(recos, test_events[i - 1].item) * 100, Len(target) - 1>>
        /\ PosOf(recos, test_events[i - 1].item) \in 0..(Len(target) - 1)

\* a mean m of percentiles lies in [0, 100] unless it is nan
InBounds(m) == ~m.nan => (m.den > 0 /\ 0 <= m.num /\ m.num <= 100 * m.den)

\* the mean of the percentiles computed so far, and the MPR batch_update got
\* from the last batch_evaluate, lie in [0, 100] when every candidate set had
\* at least 2 items
MPRInBounds ==
    /\ pc = "batch_eval" =>
          /\ InBounds(Mean(percentiles))
          /\ (percentiles # <<>> /\ \A k \in DOMAIN percentiles : percentiles[k][2] >= 1)
                => ~Mean(percentiles).nan
    /\ InBounds(MPR)

\* the event just scored had at least 2 candidates if at least 2 items are
\* registered and its user has an unobserved item other than the true item
NonDegenerateCandidates ==
    BatchScored =>
        LET e == test_events[i - 1]
        IN  (Cardinality(items) >= 2 /\ (items \ users[e.user].observed) \ {e.item} # {})
                => Len(target) >= 2

\* C11: batch_evaluate returns the arithmetic mean over the test events of
\* pos / (len(candidates) - 1) * 100; the result lies in [0, 100] whenever
\* every candidate set has at least 2 items; and within fit every test event
\* has at least 2 candidates whenever at least 2 items are registered and the
\* user has an unobserved item other than the true item.
C11_MPR ==
    /\ PercentileOfEvent
    /\ MPRInBounds
    /\ NonDegenerateCandidates

\* ------------------------------------------------------------------- C12
FeatureOps == {"update_user_feature", "update_item_feature"}

\* the call at position p of the log is immediately preceded by the refresh
\* of the user feature under the event's user index and of the item feature
\* under the event's item index
FeaturesRefreshedBefore(p) ==
    /\ p >= 3
    /\ calls[p - 2].op = "update_user_feature"
    /\ calls[p - 2].user = calls[p].user
    /\ calls[p - 1].op = "update_item_feature"
    /\ calls[p - 1].item = calls[p].item

RefreshedOnBothPaths ==
    IF is_feature_rec
    THEN \A p \in DOMAIN calls :
            calls[p].op \in {"update", "recommend"} => FeaturesRefreshedBefore(p)
    ELSE \A p \in DOMAIN calls : calls[p].op \notin FeatureOps

\* the recommend path alone
RefreshedBeforeRecommend ==
    is_feature_rec =>
        \A p \in DOMAIN calls : calls[p].op = "recommend" => FeaturesRefreshedBefore(p)

\* C12: with a feature-aware recommender every update call and every
\* recommend call for an event is immediately preceded by
\* update_user_feature under the event's user index and update_item_feature
\* under the event's item index; with a plain recommender neither is ever
\* called; and the variant chosen at construction never changes.
C12_FeatureRefresh ==
    /\ []RefreshedOnBothPaths
    /\ [][is_feature_rec' = is_feature_rec]_vars

\* ------------------------------------------------------------------- C13
\* the order of the phases of fit
PhaseRank(ph) ==
    CASE ph = "init" -> 0
      [] ph = "bootstrap" -> 1
      [] ph = "prereg" -> 2
      [] ph \in {"train", "batch_eval"} -> 3
      [] ph = "foldin" -> 4
      [] OTHER -> 5

\* the positions of the log with operation op made by the loop ph
PhaseEntries(op, ph) == {p \in DOMAIN calls : calls[p].op = op /\ calls[p].phase = ph}

\* every user and item of train_events and test_events is registered
AllFitEntitiesRegistered ==
    \A k \in DOMAIN (train_events \o test_events) :
        /\ (train_events \o test_events)[k].user \in DOMAIN users
        /\ (train_events \o test_events)[k].item \in items

\* C13: fit runs its phases in a fixed order.  init_model is its first call;
\* then come the registration of the train entities with their items marked
\* observed and the registration of the test entities, which make no update
\* and no recommend call; then batch_update; then the fold-in.  An update or
\* recommend call is made only once every user and item of train_events and
\* test_events is registered, and a fold-in update only once the last
\* batch_evaluate of the last epoch has returned.
C13_FitPhaseOrder ==
    pc \in FitPcs =>
        /\ calls # <<>>
        /\ calls[1].op = "init_model"
        /\ \A p \in DOMAIN calls : p > 1 => calls[p].op # "init_model"
        /\ \A p, q \in DOMAIN calls :
              p < q => PhaseRank(calls[p].phase) <= PhaseRank(calls[q].phase)
        /\ \A p \in DOMAIN calls :
              /\ PhaseRank(calls[p].phase) <= 4
              /\ calls[p].phase = "bootstrap" => calls[p].op \in {"add_user", "add_item", "observe"}
              /\ calls[p].phase = "prereg" => calls[p].op \in {"add_user", "add_item"}
              /\ calls[p].op \in {"add_user", "add_item"} =>
                    calls[p].phase \in {"bootstrap", "prereg"}
        /\ \A k \in 1..Len(train_events) :
              (pc # "fit_bootstrap" \/ k < i) =>
                  /\ train_events[k].user \in DOMAIN users
                  /\ train_events[k].item \in users[train_events[k].user].observed
        /\ (\E p \in DOMAIN calls : calls[p].op \in ({"update", "recommend"} \cup FeatureOps))
              => /\ pc \in {"batch_train", "batch_eval", "batch_epoch", "fit_foldin"}
                 /\ AllFitEntitiesRegistered
        /\ pc \in {"batch_train", "batch_eval", "batch_epoch", "fit_foldin"}
              => AllFitEntitiesRegistered
        /\ (pc = "fit_foldin" \/ \E p \in DOMAIN calls : calls[p].phase = "foldin") =>
              /\ pc = "fit_foldin"
              /\ epoch = n_epoch
              /\ Cardinality(PhaseEntries("recommend", "batch_eval"))
                    = n_epoch * Len(test_events)
              /\ Cardinality(PhaseEntries("update", "train"))
                    = n_epoch * Len(train_events)

\* fit has made its first fold-in update, after two epochs over a train event
\* and two test events that brought a user and an item of their own
C13_Witness ==
    /\ pc = "fit_foldin"
    /\ i = 2
    /\ n_epoch = 2
    /\ Len(train_events) = 1
    /\ Len(test_events) = 2
    /\ PhaseEntries("add_user", "prereg") # {}
    /\ PhaseEntries("add_item", "prereg") # {}
    /\ PhaseEntries("update", "foldin") # {}

\* ------------------------------------------------------------------- C14
\* the items of the events of user u in the list es
ItemsOf(u, es) == {es[k].item : k \in {j \in DOMAIN es : es[j].user = u}}

UsersOf(es) == {es[k].user : k \in DOMAIN es}

BatchPcs == {"batch_epoch", "batch_train", "batch_eval"}

\* during batch_update the observed set of each registered user is the set of
\* the items of its train events; the users and items of the test events are
\* registered
ObservedIsTrainDuringBatch ==
    pc \in BatchPcs =>
        /\ DOMAIN users = UsersOf(train_events \o test_events)
        /\ items = {(train_events \o test_events)[k].item :
                        k \in DOMAIN (train_events \o test_events)}
        /\ \A u \in DOMAIN users : users[u].observed = ItemsOf(u, train_events)

\* during the fold-in the test events folded in so far have been added, and
\* at its end (the state fit returns from) all of them
ObservedIsTrainPlusTestAtReturn ==
    pc = "fit_foldin" =>
        \A u \in DOMAIN users :
            users[u].observed =
                ItemsOf(u, train_events) \cup ItemsOf(u, SubSeq(test_events, 1, i - 1))

\* C14: during the whole batch_update phase of fit each user's observed set
\* is exactly the set of the items of that user's train events: the test
\* users and items are registered, and no item is observed because of a test
\* event.  When fit returns, each user's observed set is exactly the items of
\* that user's train events plus the items of that user's test events (the
\* return itself changes no observed set).
C14_ObservedDuringFit ==
    /\ []ObservedIsTrainDuringBatch
    /\ []ObservedIsTrainPlusTestAtReturn
    /\ [][(pc = "fit_foldin" /\ pc' = "idle") => (i > Len(test_events) /\ users' = users)]_vars

\* fit is about to return: its fold-in has added the items of two test events,
\* one of a user that no train event had brought
C14_Witness ==
    /\ pc = "fit_foldin"
    /\ i = Len(test_events) + 1
    /\ Len(test_events) = 2
    /\ train_events # <<>>
    /\ \E u \in DOMAIN users : ItemsOf(u, train_events) = {} /\ users[u].observed # {}

\* ------------------------------------------------------------------- C15
\* the k-th smallest element of a set of positions
NthOf(S, k) == CHOOSE p \in S : Cardinality({q \in S : q < p}) = k - 1

\* the positions in the log of the updates of batch_update's loop, and of the
\* recommends of batch_evaluate
TrainUpdates == PhaseEntries("update", "train")

BatchRecommends == PhaseEntries("recommend", "batch_eval")

\* the list fit was called with, in the caller's order
SuppliedTrain == hist[Len(hist)].tr

\* the events of the b-th group of len(train_events) batch updates
EpochBlock(b) ==
    [k \in 1..Len(train_events) |->
        LET c == calls[NthOf(TrainUpdates, (b - 1) * Len(train_events) + k)]
        IN  Event(c.user, c.item)]

\* the number of batch updates and of batch recommends made so far in fit
BatchUpdatesDue ==
    epoch * Len(train_events)
        + (IF pc = "batch_train" THEN i - 1
           ELSE IF pc = "batch_eval" THEN Len(train_events) ELSE 0)

BatchRecommendsDue ==
    epoch * Len(test_events) + (IF pc = "batch_eval" THEN i - 1 ELSE 0)

EpochsInOrder ==
    pc \in FitPcs =>
        /\ epoch <= n_epoch
        /\ pc \in {"batch_train", "batch_eval"} => epoch < n_epoch
        /\ pc = "fit_foldin" => epoch = n_epoch
        /\ Cardinality(TrainUpdates) = BatchUpdatesDue
        /\ Cardinality(BatchRecommends) = BatchRecommendsDue
        /\ train_events \in Perms(SuppliedTrain)
        /\ n_epoch = 1 => train_events = SuppliedTrain
        /\ \A b \in 1..(Cardinality(TrainUpdates) \div Max(Len(train_events), 1)) :
              /\ EpochBlock(b) \in Perms(SuppliedTrain)
              /\ n_epoch = 1 => EpochBlock(b) = SuppliedTrain
        /\ pc = "batch_train" =>
              \A k \in 1..(i - 1) :
                  LET c == calls[NthOf(TrainUpdates, epoch * Len(train_events) + k)]
                  IN  Event(c.user, c.item) = train_events[k]
        /\ \A a \in 1..Cardinality(TrainUpdates), r \in 1..Cardinality(BatchRecommends) :
              (NthOf(TrainUpdates, a) < NthOf(BatchRecommends, r))
                 <=> ((a - 1) \div Len(train_events) <= (r - 1) \div Len(test_events))

BatchFlags ==
    \A p \in DOMAIN calls :
        calls[p].op = "update" =>
            /\ calls[p].phase \in {"train", "foldin", "evaluate"}
            /\ calls[p].batch <=> calls[p].phase = "train"

\* C15: in batch_update each epoch passes every train event to update exactly
\* once with is_batch_train=True and then calls batch_evaluate exactly once:
\* fit makes n_epoch * len(train_events) batch updates and n_epoch batch
\* evaluations.  With n_epoch = 1 the updates are made in the order the caller
\* supplied and train_events is not reordered.  The fold-in updates of fit and
\* the updates of evaluate are made with is_batch_train=False.
C15_EpochUpdates ==
    /\ []EpochsInOrder
    /\ []BatchFlags
    /\ [][(epoch' # epoch /\ pc' \in BatchPcs) =>
             (pc = "batch_eval" /\ i > Len(test_events) /\ epoch' = epoch + 1)]_vars
    /\ [][(pc # "batch_eval" /\ pc' = "batch_eval") =>
             (pc = "batch_train" /\ i > Len(train_events))]_vars

\* fit has run two epochs over two different train events and a test event,
\* and the second epoch took the train events in the other order
C15_Witness ==
    /\ pc = "fit_foldin"
    /\ n_epoch = 2
    /\ Len(train_events) = 2
    /\ train_events[1] # train_events[2]
    /\ test_events # <<>>
    /\ EpochBlock(1) # EpochBlock(2)

\* ------------------------------------------------------------------- C16
\* the number of update calls in a log
UpdateCount(log) == Cardinality({p \in DOMAIN log : log[p].op = "update"})

\* a step of batch_evaluate: its entry (percentiles, all_items), one iteration
\* of its loop, or its return
BatchEvaluateStep ==
    \/ pc = "batch_eval"
    \/ pc = "batch_train" /\ pc' = "batch_eval"

\* C16: batch_evaluate is observational: none of its steps changes a user's
\* observed set, the registered users or the registered items, and none makes
\* an update call; the MPR it returns gates nothing: after each
\* batch_evaluate the next epoch runs if and only if fewer than n_epoch epochs
\* were run, whatever MPR is, and the updates of that epoch are those of
\* train_events.
C16_BatchEvaluateObservational ==
    /\ [][BatchEvaluateStep =>
             /\ users' = users
             /\ items' = items
             /\ n_user' = n_user
             /\ n_item' = n_item
             /\ freq' = freq
             /\ UpdateCount(calls') = UpdateCount(calls)]_vars
    /\ [][pc = "batch_epoch" =>
             /\ pc' = (IF epoch < n_epoch THEN "batch_train" ELSE "fit_foldin")
             /\ train_events' \in Perms(train_events)
             /\ UNCHANGED <<test_events, n_epoch, epoch>>]_vars

\* a second epoch is under way after a batch_evaluate that changed all_items
\* and returned an MPR above 0
C16_Witness ==
    /\ pc = "batch_train"
    /\ epoch = 1
    /\ n_epoch = 2
    /\ ~MPR.nan
    /\ MPR.num > 0
    /\ \E u \in DOMAIN users : users[u].observed # {}

\* ------------------------------------------------------------------- C17
\* the items fit marked observed for user u: those of its train and test
\* events, as recorded at the call
FitItemsOf(u) == ItemsOf(u, hist[1].tr \o hist[1].te)

\* at the moment an event of evaluate is scored, the observed set of each
\* user is its items of fit plus the items of its events scored before
ObservedAtScoring ==
    pc = "ev_recommend" =>
        /\ Len(hist) = 2
        /\ hist[1].op = "fit"
        /\ hist[2].evs = eval_events
        /\ \A u \in DOMAIN users :
              users[u].observed =
                  FitItemsOf(u) \cup ItemsOf(u, SubSeq(eval_events, 1, gen_i - 1))

\* what a step made while the generator lives does to the observed sets
EvaluateFrame ==
    pc \in GenPcs =>
        /\ \A u \in DOMAIN users :
              /\ u \in DOMAIN users'
              /\ users'[u].observed =
                    IF pc = "ev_observe" /\ u = eval_events[gen_i].user
                    THEN users[u].observed \cup {eval_events[gen_i].item}
                    ELSE users[u].observed
        /\ \A u \in (DOMAIN users') \ (DOMAIN users) :
              /\ pc = "ev_validate"
              /\ u = eval_events[gen_i].user
              /\ users'[u].observed = {}

\* C17: processing an event e in evaluate changes the observed sets only by
\* adding e.item.index to the set of e.user.index: the set of every other user
\* is unchanged and nothing is ever removed (a user registered by the event
\* starts with an empty set).  So when an event is scored, the observed set of
\* each user is exactly its items of fit (train and test events) plus the
\* items of its evaluate events scored before.
C17_EvaluateObservedFrame ==
    /\ [][EvaluateFrame]_vars
    /\ []ObservedAtScoring

\* the second event of a stream is about to be scored, for another user than
\* the first, whose item was new to its user; both users have items of fit
C17_Witness ==
    /\ pc = "ev_recommend"
    /\ gen_i = 2
    /\ eval_events[1].user # eval_events[2].user
    /\ eval_events[1].item \notin FitItemsOf(eval_events[1].user)
    /\ FitItemsOf(eval_events[1].user) # {}
    /\ FitItemsOf(eval_events[2].user) # {}

\* ------------------------------------------------------------------- C18
\* the result evaluate yielded last, while the ranking it comes from is still
\* held by the suspended generator
LastResult == results[Len(results)]

\* C18: the top1_score of every result evaluate yields is the score of the
\* candidate ranked first in the recommend output for that event, which is
\* the maximum score over the candidate set; the result's rank is the position
\* of the true item in that output, so top1_score is the true item's score
\* when rank = 0.  (At the recommend call of the deterministic recommender
\* the scores are those of the ranked candidates, in descending order.)
C18_Top1Score ==
    /\ (pc = "suspended" /\ results # <<>>) =>
          /\ Len(scores) = Len(target)
          /\ Len(recos) = Len(target)
          /\ Range(recos) = Range(target)
          /\ LastResult.top1 = scores[1]
          /\ \A k \in DOMAIN scores : scores[k] <= LastResult.top1
          /\ recos[LastResult.rank + 1] = eval_events[Len(results)].item
          /\ LastResult.rank = 0 => LastResult.top1 = scores[LastResult.rank + 1]
    /\ pc = "ev_observe" =>
          /\ \A k \in 1..(Len(scores) - 1) : scores[k] >= scores[k + 1]
          /\ rec_kind = "popular" => \A k \in DOMAIN scores : scores[k] = freq[recos[k]]

\* a result was yielded whose true item is ranked below the first candidate
\* with a smaller score: top1_score is not the true item's score
C18_Witness ==
    /\ pc = "suspended"
    /\ results # <<>>
    /\ LastResult.rank > 0
    /\ scores[LastResult.rank + 1] < LastResult.top1

\* ------------------------------------------------------------------- C19
\* the positions of the recommend calls in the log
Recommends == {p \in DOMAIN calls : calls[p].op = "recommend"}

\* as long as set_can_repeat was never called no event is scored, and the
\* only fault of the run is that of the read of can_repeat
NothingScoredUnset ==
    /\ ~has_can_repeat =>
          /\ Recommends = {}
          /\ results = <<>>
          /\ pc = "batch_eval" => i = 1
          /\ pc \notin {"ev_observe", "ev_update", "ev_yield"}
          /\ (pc = "fit_foldin" \/ (pc = "batch_epoch" /\ epoch > 0)) => test_events = <<>>
    /\ (pc = "error" <=> fault = "AttributeError")
    /\ fault = "AttributeError" => ~has_can_repeat

\* the first read of can_repeat, for the first test event of batch_evaluate
\* or the first event pulled from evaluate, ends the run in an error
FirstReadFails ==
    (~has_can_repeat /\ (pc = "ev_recommend" \/ (pc = "batch_eval" /\ test_events # <<>>)))
        => (pc' = "error" /\ fault' = "AttributeError" /\ calls' = calls /\ results' = results)

\* can_repeat gets its value from set_can_repeat alone, a step of the caller
\* that changes nothing else
SetOnlyBySetter ==
    (has_can_repeat' # has_can_repeat \/ can_repeat' # can_repeat) =>
        /\ has_can_repeat'
        /\ pc \in {"idle", "suspended"}
        /\ UNCHANGED <<recVars, pc, fault, calls, results>>

\* the candidate set just built follows the value can_repeat has: all the
\* registered items if it is True; if it is False, the true item and no other
\* item the user has observed
CandidatesFollowCanRepeat ==
    /\ pc = "ev_observe" =>
          LET e == eval_events[gen_i]
          IN  /\ can_repeat => Range(target) = items
              /\ ~can_repeat => /\ e.item \in Range(target)
                                /\ Range(target) \cap users[e.user].observed \subseteq {e.item}
    /\ BatchScored =>
          LET e == test_events[i - 1]
          IN  /\ can_repeat => Range(target) = items
              /\ ~can_repeat => /\ e.item \in Range(target)
                                /\ Range(target) \cap users[e.user].observed \subseteq {e.item}

\* C19: can_repeat has no value after construction and gets one only from
\* set_can_repeat.  When fit with at least one test event (its
\* batch_evaluate) or evaluate with at least one event runs before any
\* set_can_repeat call, the run ends in an error at the first read of
\* can_repeat, before any recommend call; after set_can_repeat(v) every
\* candidate set is built with v.
C19_CanRepeatUnset ==
    /\ []NothingScoredUnset
    /\ [][FirstReadFails]_vars
    /\ [][SetOnlyBySetter]_vars
    /\ []CandidatesFollowCanRepeat

\* a fit with a train event and a test event has ended in the error of the
\* read of can_repeat, after its batch update and before any recommend
C19_Witness ==
    /\ pc = "error"
    /\ fault = "AttributeError"
    /\ ~has_can_repeat
    /\ train_events # <<>>
    /\ test_events # <<>>
    /\ TrainUpdates # {}
    /\ Recommends = {}

====
